---- MODULE Spec2Model ----
(***************************************************************************)
(* Batch image generation front end (multi-provider ImageGenerator + App). *)
(* State machine of the key pool, the retry/rotation policy inside         *)
(* generateSingleImage, the worker pool of handleStartGeneration and the   *)
(* user-triggered retry / edit handlers.                                   *)
(*                                                                         *)
(* Granularity: one action per browser task.  A handler runs from the user *)
(* event (or the network response, or the timer) to the next real await    *)
(* (a provider request or the inter-task timer); promise continuations     *)
(* that need no further I/O run inside the same action.                    *)
(*                                                                         *)
(* Closures: generateSingleImage is a useCallback value.  A handler uses   *)
(* the instance of the render it was created in, so selectedModel,         *)
(* apiKeys, isManualKeySelection and activeKeyIndices are read as they     *)
(* were when the run / retry / edit started (record "cl" below), while the *)
(* useRef cursors googleKeyIndex / openaiKeyIndex are read live.           *)
(***************************************************************************)
EXTENDS Integers, Sequences, FiniteSets, TLC

\* ------------------------------------------------------------- bounds
MaxKeys == 2
MaxTasks == 2
MaxConcurrency == 2
MaxRetries == 1
MaxFilterLen == 3
MaxFilterId == 3
MaxRows == 2

\* ---------------------------------------------------------- vocabulary
Providers == {"google", "openai"}

ModelNames == {"openai-dalle3", "google-imagen-4", "google-gemini-flash-image", "openai-dalle2"}

MODELS == [m \in ModelNames |->
             IF m \in {"openai-dalle3", "openai-dalle2"} THEN "openai" ELSE "google"]

KeyIds == 1..MaxKeys

TaskIds == 1..MaxTasks

NoKeys == <<>>

EmptyApiKeys == [p \in Providers |-> NoKeys]

Range(s) == {s[i] : i \in 1..Len(s)}

\* error texts a record can carry (ImageResult.error)
ErrNone == "undefined"
ErrNoKeys == "No API keys provided for provider."
ErrManualKey == "The manually selected API key is rate-limited or invalid."
ErrAllKeys == "All API keys are rate-limited or invalid."
ErrNoInstance == "Google AI instance not found"
ErrNoImage == "No image was returned from the API."
ErrProvider == "provider error message"

NoItem == [id |-> 0, prompt |-> "", imageUrl |-> "null", status |-> "pending", error |-> ErrNone]

NoClosure == [prov |-> "openai", keys |-> NoKeys, glen |-> 0, manual |-> FALSE, aki |-> 0]

\* ---------------------------------------------------------------- state
VARIABLES
  apiKeys,              \* App: provider -> sequence of keys
  localStorage,         \* the browser's store: item name -> <<>> (absent) or <<value>>
  csvData,              \* the rows of the user's delimited text, as the parser hands
                        \* them to the complete callback (used under ParseSpec)
  selectedModel,        \* ImageGenerator state
  activeKeyIndices,     \* provider -> selected / last good index (React state)
  keyIndexRef,          \* provider -> rotation cursor (googleKeyIndex / openaiKeyIndex refs)
  isManualKeySelection,
  prompts,              \* parsed input list (sequence of task ids)
  startId, endId,       \* range filter fields (Blank or a number)
  results,              \* sequence of ImageResult records
  isGenerating,
  progress,             \* [current, total]
  concurrencyLimit,
  requestDelay,
  queue,                \* the run's local queue
  workers,              \* the run's workers
  runCl,                \* closure of generateSingleImage the run captured
  retries,              \* user retries / edits in flight
  editingResult,        \* id shown in the EditModal, 0 when closed
  alertMsg,             \* alert raised by the last handler ("" when none)
  finished,             \* summaries of the tasks that returned in the last step
  lastGood,             \* history: provider -> key index of its last automatic-mode
                        \* success (-1: none yet)
  runInput,             \* history: the task ids the last run was started with
  runClean,             \* history: no image request of that run was answered with a
                        \* failure so far
  session,              \* which of the user sessions below is explored
  pos                   \* how far the user is in that session

vars == <<apiKeys, localStorage, csvData, selectedModel, activeKeyIndices, keyIndexRef, isManualKeySelection,
          prompts, startId, endId, results, isGenerating, progress, concurrencyLimit,
          requestDelay, queue, workers, runCl, retries, editingResult, alertMsg,
          finished, lastGood, runInput, runClean, session, pos>>

genVars == <<selectedModel, activeKeyIndices, keyIndexRef, isManualKeySelection,
             prompts, startId, endId, results, isGenerating, progress, concurrencyLimit,
             requestDelay, queue, workers, runCl, retries, editingResult, lastGood,
             runInput, runClean>>

\* ------------------------------------------------------ derived values
activeProvider == MODELS[selectedModel]

activeKeys == apiKeys[activeProvider]

activeKeyIndex == activeKeyIndices[activeProvider]

hasAnyKey == \E p \in Providers : Len(apiKeys[p]) > 0

\* the number shown in the "Generation complete" report
successfulGenerations == Cardinality({i \in 1..Len(results) : results[i].status = "success"})

\* the prompt sanitizer switch; it is left at its initial value
anonymizePrompts == TRUE

\* the closure a handler captures when it starts (glen: number of
\* googleInstances of that render)
\* variant that forgets the selected key (what C25 rules out)
CaptureFirstKey == [prov |-> activeProvider, keys |-> activeKeys, glen |-> Len(apiKeys["google"]),
                    manual |-> isManualKeySelection, aki |-> 0]

Capture == [prov |-> activeProvider, keys |-> activeKeys, glen |-> Len(apiKeys["google"]),
            manual |-> isManualKeySelection, aki |-> activeKeyIndex]


\* --------------------------------------------- the provider's responses
\* What one request can come back with: an image, a reply without image
\* data, or a thrown error payload (error.error.code, error.error.status
\* and the text found by JSON.stringify(error)).
OutImage == [kind |-> "image", code |-> "", status |-> "", text |-> ""]

OutNoImage == [kind |-> "noimage", code |-> "", status |-> "", text |-> ""]

\* thrown before any request when the chosen Google instance is undefined
OutNoInstance == [kind |-> "noinstance", code |-> "", status |-> "", text |-> ""]

OutErrors == {[kind |-> "error", code |-> "429", status |-> "", text |-> ""],
              [kind |-> "error", code |-> "rate_limit_exceeded", status |-> "", text |-> ""],
              [kind |-> "error", code |-> "", status |-> "RESOURCE_EXHAUSTED", text |-> ""],
              [kind |-> "error", code |-> "", status |-> "", text |-> "quota exceeded"],
              [kind |-> "error", code |-> "", status |-> "", text |-> "billed users"],
              [kind |-> "error", code |-> "500", status |-> "INTERNAL", text |-> ""],
              [kind |-> "error", code |-> "content_policy_violation", status |-> "", text |-> ""]}

Outcomes == {OutImage, OutNoImage} \cup OutErrors

isRateLimitError(o) ==
  /\ o.kind = "error"
  /\ \/ o.code = "429" \/ o.code = "rate_limit_exceeded"
     \/ o.status = "RESOURCE_EXHAUSTED"
     \/ o.text = "quota exceeded"
     \/ o.text = "billed users"

\* how the catch block sees what was thrown (or that nothing was)
Classify(o) ==
  IF o.kind = "image" THEN "Success"
  ELSE IF isRateLimitError(o) THEN "RateLimited"
  ELSE "Other"

handleError(o) ==
  IF o.kind = "noimage" THEN ErrNoImage
  ELSE IF o.kind = "noinstance" THEN ErrNoInstance
  ELSE ErrProvider

\* ------------------------------------- generateSingleImage (the policy)
\* variant without the guard (what C8 rules out)
PoolNeverEmpty(cl) == FALSE

\* "No API keys provided" guard
PoolIsEmpty(cl) == Len(cl.keys) = 0

\* the prompt is first sent to the sanitizer (a text request on the Google
\* instance under the google cursor); its failure is swallowed
Anonymizes(cl, refs) == anonymizePrompts /\ cl.glen > 0 /\ refs["google"] < cl.glen

\* manual mode refuses a second attempt
ManualRetryRefused(cl, attempt) == cl.manual /\ attempt > 0

\* variant that gives up one attempt later (what C1 rules out)
AttemptsExhaustedLate(cl, attempt) == ~cl.manual /\ attempt > Len(cl.keys)

\* automatic mode gives up once every key of the pool was tried
AttemptsExhausted(cl, attempt) == ~cl.manual /\ attempt >= Len(cl.keys)

\* variant that ignores the cursor (what C4 rules out)
KeyIndexFromZero(cl, attempt, cursor) ==
  IF cl.manual THEN cl.aki ELSE attempt % Len(cl.keys)

\* index of the key to try (0-based, as in the code)
KeyIndexToTry(cl, attempt, cursor) ==
  IF cl.manual THEN cl.aki ELSE (cursor + attempt) % Len(cl.keys)

\* googleInstances[keyIndexToTry] is undefined: the request is never sent
InstanceMissing(cl, k) == cl.prov = "google" /\ k >= Len(cl.keys)

\* variant that rotates on every failure (what C7 rules out)
RotateOnAnyFailure(cl, o) == ~cl.manual

\* the catch block retries with the next key
ShouldRotate(cl, o) == isRateLimitError(o) /\ ~cl.manual

\* index the cursor is advanced to on success, -1 when it is left alone
AdvanceTo(cl, k) == IF ~cl.manual THEN k ELSE -1

Failed(item, msg) == [item EXCEPT !.status = "error", !.error = msg]

Succeeded(item) == [item EXCEPT !.imageUrl = "data", !.status = "success", !.error = ErrNone]

\* the three things generateSingleImage can do next: return a record
\* ("ret"), wait for the sanitizer ("anon"), wait for the image request it
\* sent with key index k ("call"); cls is how the reply just handled was
\* classified ("none": no reply was handled)
Returned(res, attempt, k, cls, adv) ==
  [kind |-> "ret", key |-> k, attempt |-> attempt, res |-> res, cls |-> cls, adv |-> adv]

Calling(k, attempt) ==
  [kind |-> "call", key |-> k, attempt |-> attempt, res |-> NoItem, cls |-> "none", adv |-> -1]

Anonymizing(attempt) ==
  [kind |-> "anon", key |-> 0, attempt |-> attempt, res |-> NoItem, cls |-> "none", adv |-> -1]

\* generateSingleImage(item, attempt) from the key choice to its image
\* request (or its early return); refs are the cursors as they are now
GsiSelect(cl, item, attempt, refs) ==
  IF ManualRetryRefused(cl, attempt)
  THEN Returned(Failed(item, ErrManualKey), attempt, -1, "none", -1)
  ELSE IF AttemptsExhausted(cl, attempt)
       THEN Returned(Failed(item, ErrAllKeys), attempt, -1, "none", -1)
  ELSE LET k == KeyIndexToTry(cl, attempt, refs[cl.prov])
       IN IF InstanceMissing(cl, k)
          THEN Returned(Failed(item, handleError(OutNoInstance)), attempt, -1,
                        Classify(OutNoInstance), -1)
          ELSE Calling(k, attempt)

\* generateSingleImage(item, attempt) from its first line to its first await
GsiEnter(cl, item, attempt, refs) ==
  IF PoolIsEmpty(cl) THEN Returned(Failed(item, ErrNoKeys), attempt, -1, "none", -1)
  ELSE IF Anonymizes(cl, refs) THEN Anonymizing(attempt)
  ELSE GsiSelect(cl, item, attempt, refs)

\* generateSingleImage from the provider's reply on
GsiResponse(cl, item, attempt, k, o, refs) ==
  IF o.kind = "image"
  THEN Returned(Succeeded(item), attempt, k, Classify(o), AdvanceTo(cl, k))
  ELSE IF ShouldRotate(cl, o)
       THEN [GsiEnter(cl, item, attempt + 1, refs) EXCEPT !.cls = Classify(o)]
       ELSE Returned(Failed(item, handleError(o)), attempt, k, Classify(o), -1)

\* the classifications a task has gone through, in order
Seen(hist, s) == IF s.cls = "none" THEN hist ELSE Append(hist, s.cls)

\* what a finished task leaves in "finished": who ran it, the closure it
\* ran with, the attempt it returned from, the image requests it sent, the
\* key index of the last one (-1: none), its classifications and the record
\* it returned
Summary(src, item, cl, s, calls, hist) ==
  [src |-> src, id |-> item.id, cl |-> cl, attempt |-> s.attempt, calls |-> calls,
   key |-> s.key, hist |-> Seen(hist, s), res |-> s.res]


\* ------------------------------------------------------ result records
DefaultRequestDelay == 1000

Delays == {0, DefaultRequestDelay}

InitialResult(id) ==
  [id |-> id, prompt |-> "p0", imageUrl |-> "null", status |-> "pending", error |-> ErrNone]

\* prev.map(r => r.id === id ? { ...r, status: 'generating' } : r)
MarkGenerating(rs, id) ==
  [i \in 1..Len(rs) |-> IF rs[i].id = id THEN [rs[i] EXCEPT !.status = "generating"] ELSE rs[i]]

\* variant that replaces every record (what C15 rules out)
WriteBackEverywhere(rs, id, res) == [i \in 1..Len(rs) |-> res]

\* prev.map(r => r.id === item.id ? updatedResult : r)
WriteBackById(rs, id, res) ==
  [i \in 1..Len(rs) |-> IF rs[i].id = id THEN res ELSE rs[i]]

\* prev.map((r, i) => i === resultIndex ? updatedResult : r)
WriteBackByIndex(rs, idx, res) ==
  [i \in 1..Len(rs) |-> IF i = idx THEN res ELSE rs[i]]

\* results.findIndex(r => r.id === resultId), 1-based, 0 when absent
FindIndex(rs, id) ==
  IF \E i \in 1..Len(rs) : rs[i].id = id
  THEN CHOOSE i \in 1..Len(rs) : rs[i].id = id /\ \A j \in 1..(i - 1) : rs[j].id # id
  ELSE 0

\* -------------------------------------------------------------- workers
IdleWorker ==
  [pc |-> "idle", item |-> NoItem, attempt |-> 0, key |-> 0, calls |-> 0, hist |-> <<>>]

DoneWorker == [IdleWorker EXCEPT !.pc = "done"]

DelayWorker == [IdleWorker EXCEPT !.pc = "delay"]

\* a worker inside generateSingleImage: waiting for the sanitizer ("anon")
\* or for the image request ("await"); calls counts the image requests sent
BusyWorker(item, s, calls, hist) ==
  [pc |-> IF s.kind = "anon" THEN "anon" ELSE "await", item |-> item,
   attempt |-> s.attempt, key |-> s.key,
   calls |-> IF s.kind = "call" THEN calls + 1 ELSE calls, hist |-> Seen(hist, s)]

NoWorkers == [w \in 1..MaxConcurrency |-> IdleWorker]

FreeSlot == [pc |-> "free", src |-> "retry", idx |-> 0, item |-> NoItem, attempt |-> 0,
             key |-> 0, calls |-> 0, hist |-> <<>>, cl |-> NoClosure]

NoRetries == [r \in 1..MaxRetries |-> FreeSlot]

\* One worker of processQueue, from the top of its while loop to its next
\* await; st holds the run's results, queue, progress, workers and the
\* tasks finished on the way.
RECURSIVE WorkerLoop(_, _, _, _, _)
RECURSIVE AfterTask(_, _, _, _, _, _, _, _, _)
WorkerLoop(st, w, cl, refs, delay) ==
  IF Len(st.queue) = 0 THEN [st EXCEPT !.workers[w] = DoneWorker]
  ELSE LET item == Head(st.queue)
           st1 == [st EXCEPT !.queue = Tail(@), !.results = MarkGenerating(@, item.id)]
           s == GsiEnter(cl, item, 0, refs)
       IN IF s.kind = "ret"
          THEN AfterTask(st1, w, cl, refs, delay, item, s, 0, <<>>)
          ELSE [st1 EXCEPT !.workers[w] = BusyWorker(item, s, 0, <<>>)]

\* the rest of the loop body once generateSingleImage(item) has returned
AfterTask(st, w, cl, refs, delay, item, s, calls, hist) ==
  LET st1 == [st EXCEPT !.results = WriteBackById(@, item.id, s.res),
                        !.progress.current = @ + 1,
                        !.finished = Append(@, Summary("pool", item, cl, s, calls, hist))]
  IN IF Len(st1.queue) > 0 /\ delay > 0
     THEN [st1 EXCEPT !.workers[w] = DelayWorker]
     ELSE WorkerLoop(st1, w, cl, refs, delay)

\* variant in which every worker starts from the queue as the first one
\* found it (what C12 rules out)
RECURSIVE SpawnOnSameQueue(_, _, _, _, _, _)
SpawnOnSameQueue(st, w, c, cl, refs, delay) ==
  IF w > c THEN st
  ELSE SpawnOnSameQueue([WorkerLoop(st, w, cl, refs, delay) EXCEPT !.queue = st.queue],
                        w + 1, c, cl, refs, delay)

\* variant that starts a worker in every slot, whatever the limit (what C17
\* rules out)
RECURSIVE SpawnEverySlot(_, _, _, _, _, _)
SpawnEverySlot(st, w, c, cl, refs, delay) ==
  IF w > MaxConcurrency THEN st
  ELSE SpawnEverySlot(WorkerLoop(st, w, cl, refs, delay), w + 1, c, cl, refs, delay)

\* Array(concurrencyLimit).fill(null).map(async () => ...): workers w..c start in order
RECURSIVE Spawn(_, _, _, _, _, _)
Spawn(st, w, c, cl, refs, delay) ==
  IF w > c THEN st ELSE Spawn(WorkerLoop(st, w, cl, refs, delay), w + 1, c, cl, refs, delay)

\* variant that resolves with the first worker to leave its loop (what C11
\* rules out)
AnyWorkerDone(ws, c) == \E w \in 1..c : ws[w].pc = "done"

\* variant that also waits for the slots the run never spawned (what C14
\* rules out)
EverySlotDone(ws, c) == \A w \in 1..MaxConcurrency : ws[w].pc = "done"

\* await Promise.all(workers); setIsGenerating(false)
AllWorkersDone(ws, c) == \A w \in 1..c : ws[w].pc = "done"

\* ------------------------------------------------------- range filter
Blank == <<>>

Num(n) == <<n>>

IsBlank(f) == Len(f) = 0

\* parseInt(field, 10); only used when the field is not blank
ParseInt(f) == f[1]

RangeGiven == ~IsBlank(startId) \/ ~IsBlank(endId)

\* variant that accepts a start above the end (what C20 rules out)
RangeInvalidOnlyIfBlank == IsBlank(startId) \/ IsBlank(endId)

\* isNaN(startNum) || isNaN(endNum) || startNum > endNum
RangeInvalid == IsBlank(startId) \/ IsBlank(endId) \/ ParseInt(startId) > ParseInt(endId)

\* variant that leaves the two bounds out (what C19 rules out)
InRangeExclusive(id) == id > ParseInt(startId) /\ id < ParseInt(endId)

\* pNum >= startNum && pNum <= endNum
InRange(id) == id >= ParseInt(startId) /\ id <= ParseInt(endId)

promptsToGenerate == IF RangeGiven THEN SelectSeq(prompts, InRange) ELSE prompts

\* ------------------------------------------------------------ inputs
\* the key lists typed into the setup form (which does not deduplicate)
FullList == [i \in 1..MaxKeys |-> i]

SameKeyList == [i \in 1..MaxKeys |-> 1]

SubmitInputs == {[google |-> NoKeys, openai |-> FullList],
                 [google |-> FullList, openai |-> NoKeys],
                 [google |-> FullList, openai |-> <<1>>],
                 [google |-> NoKeys, openai |-> SameKeyList]}

\* the keys typed into the ViewKeysModal field
AddInputs == {<<k>> : k \in KeyIds}

\* the parsed prompt lists: none, a single task, ascending ids, descending
\* ids, one id twice
PromptLists == {<<>>, <<1>>, [i \in 1..MaxTasks |-> i], [i \in 1..MaxTasks |-> MaxTasks + 1 - i],
                [i \in 1..MaxTasks |-> 1]}

\* the models picked in the <select>: one per provider
ModelChoices == {"openai-dalle3", "google-imagen-4"}

RangeFields == {Blank} \cup {Num(n) : n \in TaskIds}

\* Array.from(new Set(list)): first occurrences, in order
RECURSIVE Dedup(_)
Dedup(l) ==
  IF Len(l) = 0 THEN <<>>
  ELSE LET d == Dedup(SubSeq(l, 1, Len(l) - 1))
       IN IF l[Len(l)] \in Range(d) THEN d ELSE Append(d, l[Len(l)])

\* list.filter(key => key !== keyToRemove)
Without(l, key) == SelectSeq(l, LAMBDA x : x # key)

AlertNoPrompts == "Please upload a valid CSV file or paste data first."
AlertNoKeys == "Please add at least one API key for the provider."
AlertBadRange == "Please provide a valid start and end ID for the generation range."
AlertEmptyRange == "No prompts found in the specified range."

\* ------------------------------------------------------- user sessions
\* The user events explored.  Each session lists kinds of user events in
\* order; the user performs any subsequence of one session, with any input,
\* while replies and timers arrive in any order in between.  Submitting the
\* setup form and closing the edit dialog are always possible.  A session
\* is one visit of the page; reloading the page is explored under KeysSpec.
Sessions ==
  << <<"load", "conc", "delay", "start", "retry", "start">>,
     <<"model", "load", "start", "select", "select", "remove", "start">>,
     <<"load", "start", "select", "select", "start", "auto", "start">>,
     <<"load", "start", "remove", "add", "retry", "start", "clear">>,
     <<"load", "start", "remove", "edit", "save">>,
     <<"load", "start", "retry", "startId", "endId", "start">>,
     <<"load", "start", "edit", "save", "start">> >>

\* the shorter sessions explored under the scheduling assumptions of FairSpec
LiveSessions ==
  << <<"model", "load", "conc", "delay", "start">>,
     <<"load", "startId", "endId", "start", "retry">>,
     <<"load", "start", "edit", "save">>,
     <<"load", "start", "select", "auto", "add", "remove", "clear">> >>

\* the sessions at the key lists explored from every stored state (KeysSpec)
KeySessions ==
  << <<"model", "add", "remove", "reload", "add", "remove", "reload", "clear", "reload">>,
     <<"add", "model", "add", "reload", "remove", "remove", "clear">> >>

Script == Sessions \o LiveSessions \o KeySessions

\* ------------------------------------------------- App: local storage
\* the two items the App keeps: 'ai_api_keys' and the older 'gemini_api_key'
NoStorage == [ai_api_keys |-> <<>>, gemini_api_key |-> <<>>]

getItem(ls, name) == ls[name]

\* variant: the write is lost (what C23 rules out)
setItemLost(ls, name, value) == ls

setItem(ls, name, value) == [ls EXCEPT ![name] = <<value>>]

removeItem(ls, name) == [ls EXCEPT ![name] = <<>>]

\* JSON.stringify(keys) / JSON.parse(text) of the ApiKeys object
Stringify(keys) == [text |-> "object", google |-> keys["google"], openai |-> keys["openai"]]

ParseKeys(t) == [p \in Providers |-> IF p = "google" THEN t.google ELSE t.openai]

\* what an older version left under 'gemini_api_key': a JSON array of keys,
\* a JSON string, a plain key (not JSON), or some other JSON value
OldArray(l) == [text |-> "array", items |-> l]

OldString(k) == [text |-> "string", items |-> <<k>>]

OldPlain(k) == [text |-> "plain", items |-> <<k>>]

OldOther == [text |-> "other", items |-> <<>>]

\* the migration: an array is taken as it is, a string or a plain key
\* becomes a one-key list, anything else gives no keys
MigratedKeys(old) ==
  IF old.text = "array" THEN old.items
  ELSE IF old.text \in {"string", "plain"} THEN <<old.items[1]>>
  ELSE NoKeys

\* the App's mount effect: the key lists it sets and the storage it leaves
LoadEffect(ls) ==
  IF getItem(ls, "ai_api_keys") # <<>>
    THEN [apiKeys |-> ParseKeys(getItem(ls, "ai_api_keys")[1]), localStorage |-> ls]
  ELSE IF getItem(ls, "gemini_api_key") # <<>>
            /\ Len(MigratedKeys(getItem(ls, "gemini_api_key")[1])) > 0
    THEN LET newKeys == [EmptyApiKeys EXCEPT !["google"] =
                            MigratedKeys(getItem(ls, "gemini_api_key")[1])]
         IN [apiKeys |-> newKeys,
             localStorage |-> removeItem(setItem(ls, "ai_api_keys", Stringify(newKeys)),
                                         "gemini_api_key")]
  ELSE [apiKeys |-> EmptyApiKeys, localStorage |-> ls]

\* what the browser may hold when the page is opened
StoredBefore ==
  {NoStorage}
    \cup {setItem(NoStorage, "gemini_api_key", old) :
            old \in {OldArray(<<1, 2>>), OldArray(<<1, 1>>), OldArray(<<>>),
                     OldString(1), OldPlain(2), OldOther}}
    \cup {setItem(NoStorage, "ai_api_keys", Stringify(keys)) :
            keys \in {[google |-> <<2, 1>>, openai |-> <<1>>]}}

\* ----------------------------------------------------------------- Init
\* the state after construction, before the user's session is chosen
MountState ==
  /\ selectedModel = "openai-dalle3"
  /\ activeKeyIndices = [p \in Providers |-> 0]
  /\ keyIndexRef = [p \in Providers |-> 0]
  /\ isManualKeySelection = FALSE
  /\ prompts = <<>>
  /\ startId = Blank
  /\ endId = Blank
  /\ results = <<>>
  /\ isGenerating = FALSE
  /\ progress = [current |-> 0, total |-> 0]
  /\ concurrencyLimit = 1
  /\ requestDelay = DefaultRequestDelay
  /\ queue = <<>>
  /\ workers = NoWorkers
  /\ runCl = NoClosure
  /\ retries = NoRetries
  /\ editingResult = 0
  /\ alertMsg = ""
  /\ finished = <<>>
  /\ lastGood = [p \in Providers |-> -1]
  /\ runInput = <<>>
  /\ runClean = TRUE
  /\ pos = 0

\* the page is first opened in a browser that holds nothing
InitState ==
  /\ localStorage = LoadEffect(NoStorage).localStorage
  /\ apiKeys = LoadEffect(NoStorage).apiKeys
  /\ csvData = <<>>
  /\ MountState

Init == InitState /\ session \in 1..Len(Sessions)

FairInit ==
  InitState /\ session \in (Len(Sessions) + 1)..(Len(Sessions) + Len(LiveSessions))

\* the page is opened in a browser that holds any of the stored states
KeysInit ==
  /\ \E ls \in StoredBefore :
        /\ localStorage = LoadEffect(ls).localStorage
        /\ apiKeys = LoadEffect(ls).apiKeys
  /\ csvData = <<>>
  /\ MountState
  /\ session \in (Len(Sessions) + Len(LiveSessions) + 1)..Len(Script)

\* ImageGenerator is unmounted (no key left, the setup form is shown): its
\* state is gone and whatever it had in flight can no longer write to it
Unmount ==
  /\ selectedModel' = "openai-dalle3"
  /\ activeKeyIndices' = [p \in Providers |-> 0]
  /\ keyIndexRef' = [p \in Providers |-> 0]
  /\ isManualKeySelection' = FALSE
  /\ prompts' = <<>>
  /\ startId' = Blank
  /\ endId' = Blank
  /\ results' = <<>>
  /\ isGenerating' = FALSE
  /\ progress' = [current |-> 0, total |-> 0]
  /\ concurrencyLimit' = 1
  /\ requestDelay' = DefaultRequestDelay
  /\ queue' = <<>>
  /\ workers' = NoWorkers
  /\ runCl' = NoClosure
  /\ retries' = NoRetries
  /\ editingResult' = 0
  /\ lastGood' = [p \in Providers |-> -1]
  /\ runInput' = <<>>
  /\ runClean' = TRUE

\* a handler that neither alerts nor finishes a task
Quiet == alertMsg' = "" /\ finished' = <<>>

\* the user's next event is of this kind: the earliest later event of the
\* session that has it
Takes(kind) ==
  /\ \E j \in (pos + 1)..Len(Script[session]) :
        /\ Script[session][j] = kind
        /\ \A i \in (pos + 1)..(j - 1) : Script[session][i] # kind
        /\ pos' = j
  /\ UNCHANGED session

\* setApiKeys(keys) in App, then the re-render
SetApiKeys(keys) ==
  /\ apiKeys' = keys
  /\ UNCHANGED csvData
  /\ IF \E p \in Providers : Len(keys[p]) > 0 THEN UNCHANGED genVars ELSE Unmount

\* ------------------------------------------------- App: the key lists
\* ApiKeySetup.handleSubmit -> handleApiKeySubmit (shown while no key is stored)
handleApiKeySubmit(keys) ==
  /\ ~hasAnyKey
  /\ \E p \in Providers : Len(keys[p]) > 0
  /\ localStorage' = setItem(localStorage, "ai_api_keys", Stringify(keys))
  /\ SetApiKeys(keys)
  /\ Quiet
  /\ UNCHANGED <<session, pos>>

\* ViewKeysModal "add" -> onAddKeys(newKeys, activeProvider)
handleAddKeys(keysToAdd) ==
  /\ hasAnyKey /\ Takes("add")
  /\ Len(keysToAdd) > 0
  /\ LET finalKeys == [apiKeys EXCEPT ![activeProvider] = Dedup(@ \o keysToAdd)]
     IN /\ localStorage' = setItem(localStorage, "ai_api_keys", Stringify(finalKeys))
        /\ SetApiKeys(finalKeys)
  /\ Quiet

\* ViewKeysModal trash button of a listed key -> onRemoveKey(key, activeProvider)
handleRemoveKey(keyToRemove) ==
  /\ hasAnyKey /\ Takes("remove")
  /\ keyToRemove \in Range(activeKeys)
  /\ LET finalKeys == [apiKeys EXCEPT ![activeProvider] = Without(@, keyToRemove)]
     IN /\ localStorage' = setItem(localStorage, "ai_api_keys", Stringify(finalKeys))
        /\ SetApiKeys(finalKeys)
  /\ Quiet

handleClearAllKeys ==
  /\ hasAnyKey /\ Takes("clear")
  /\ localStorage' = removeItem(removeItem(localStorage, "ai_api_keys"), "gemini_api_key")
  /\ SetApiKeys(EmptyApiKeys)
  /\ Quiet

\* the page is reloaded: every component state is gone, what was in flight
\* can no longer write, and the App's mount effect reads the storage again
Reload ==
  /\ Takes("reload")
  /\ localStorage' = LoadEffect(localStorage).localStorage
  /\ apiKeys' = LoadEffect(localStorage).apiKeys
  /\ Unmount
  /\ UNCHANGED csvData
  /\ Quiet

\* -------------------------------------- ImageGenerator: configuration
\* "Select" on another row while in manual mode, or the "Manual Selection"
\* button, which passes the current activeKeyIndex
handleSelectKey(index) ==
  /\ hasAnyKey /\ Takes("select")
  /\ \/ isManualKeySelection /\ index \in 0..(Len(activeKeys) - 1) /\ index # activeKeyIndex
     \/ ~isManualKeySelection /\ index = activeKeyIndex
  /\ activeKeyIndices' = [activeKeyIndices EXCEPT ![activeProvider] = index]
  /\ isManualKeySelection' = TRUE
  /\ Quiet
  /\ UNCHANGED <<lastGood, runInput, runClean, apiKeys, localStorage, csvData, selectedModel, keyIndexRef, prompts, startId, endId, results,
                 isGenerating, progress, concurrencyLimit, requestDelay, queue, workers,
                 runCl, retries, editingResult>>

\* "Switch back to Automatic Rotation"
onSetAutomatic ==
  /\ hasAnyKey /\ Takes("auto")
  /\ isManualKeySelection
  /\ isManualKeySelection' = FALSE
  /\ Quiet
  /\ UNCHANGED <<lastGood, runInput, runClean, apiKeys, localStorage, csvData, selectedModel, activeKeyIndices, keyIndexRef, prompts, startId,
                 endId, results, isGenerating, progress, concurrencyLimit, requestDelay,
                 queue, workers, runCl, retries, editingResult>>

\* the model <select> (disabled while generating)
setSelectedModel(m) ==
  /\ hasAnyKey /\ Takes("model")
  /\ ~isGenerating
  /\ m # selectedModel
  /\ selectedModel' = m
  /\ Quiet
  /\ UNCHANGED <<lastGood, runInput, runClean, apiKeys, localStorage, csvData, activeKeyIndices, keyIndexRef, isManualKeySelection, prompts,
                 startId, endId, results, isGenerating, progress, concurrencyLimit,
                 requestDelay, queue, workers, runCl, retries, editingResult>>

\* the concurrency slider (disabled while generating)
setConcurrencyLimit(c) ==
  /\ hasAnyKey /\ Takes("conc")
  /\ ~isGenerating
  /\ c # concurrencyLimit
  /\ concurrencyLimit' = c
  /\ Quiet
  /\ UNCHANGED <<lastGood, runInput, runClean, apiKeys, localStorage, csvData, selectedModel, activeKeyIndices, keyIndexRef,
                 isManualKeySelection, prompts, startId, endId, results, isGenerating,
                 progress, requestDelay, queue, workers, runCl, retries, editingResult>>

\* the delay slider (disabled while generating)
setRequestDelay(d) ==
  /\ hasAnyKey /\ Takes("delay")
  /\ ~isGenerating
  /\ d # requestDelay
  /\ requestDelay' = d
  /\ Quiet
  /\ UNCHANGED <<lastGood, runInput, runClean, apiKeys, localStorage, csvData, selectedModel, activeKeyIndices, keyIndexRef,
                 isManualKeySelection, prompts, startId, endId, results, isGenerating,
                 progress, concurrencyLimit, queue, workers, runCl, retries, editingResult>>

\* pasted text (or an uploaded file) parsed into the prompt list; the range
\* fields are preset to the first and last id (disabled while generating)
handleTextInputChange(parsedPrompts) ==
  /\ hasAnyKey /\ Takes("load")
  /\ ~isGenerating
  /\ results' = <<>>
  /\ prompts' = parsedPrompts
  /\ IF Len(parsedPrompts) > 0
     THEN startId' = Num(parsedPrompts[1]) /\ endId' = Num(parsedPrompts[Len(parsedPrompts)])
     ELSE startId' = Blank /\ endId' = Blank
  /\ Quiet
  /\ runInput' = <<>>
  /\ runClean' = TRUE
  /\ UNCHANGED <<lastGood, apiKeys, localStorage, csvData, selectedModel, activeKeyIndices, keyIndexRef,
                 isManualKeySelection, isGenerating, progress, concurrencyLimit,
                 requestDelay, queue, workers, runCl, retries, editingResult>>

\* the "Start ID" field (disabled while generating)
setStartId(f) ==
  /\ hasAnyKey /\ Takes("startId")
  /\ ~isGenerating
  /\ f # startId
  /\ startId' = f
  /\ Quiet
  /\ UNCHANGED <<lastGood, runInput, runClean, apiKeys, localStorage, csvData, selectedModel, activeKeyIndices, keyIndexRef,
                 isManualKeySelection, prompts, endId, results, isGenerating, progress,
                 concurrencyLimit, requestDelay, queue, workers, runCl, retries,
                 editingResult>>

\* the "End ID" field (disabled while generating)
setEndId(f) ==
  /\ hasAnyKey /\ Takes("endId")
  /\ ~isGenerating
  /\ f # endId
  /\ endId' = f
  /\ Quiet
  /\ UNCHANGED <<lastGood, runInput, runClean, apiKeys, localStorage, csvData, selectedModel, activeKeyIndices, keyIndexRef,
                 isManualKeySelection, prompts, startId, results, isGenerating, progress,
                 concurrencyLimit, requestDelay, queue, workers, runCl, retries,
                 editingResult>>

\* the Edit button of a card (success and error cards have one)
setEditingResult(id) ==
  /\ hasAnyKey /\ Takes("edit")
  /\ editingResult = 0
  /\ \E i \in 1..Len(results) : results[i].id = id /\ results[i].status \in {"success", "error"}
  /\ editingResult' = id
  /\ Quiet
  /\ UNCHANGED <<lastGood, runInput, runClean, apiKeys, localStorage, csvData, selectedModel, activeKeyIndices, keyIndexRef,
                 isManualKeySelection, prompts, startId, endId, results, isGenerating,
                 progress, concurrencyLimit, requestDelay, queue, workers, runCl, retries>>

\* EditModal onClose
closeEditModal ==
  /\ hasAnyKey
  /\ editingResult # 0
  /\ editingResult' = 0
  /\ Quiet
  /\ UNCHANGED <<lastGood, runInput, runClean, apiKeys, localStorage, csvData, selectedModel, activeKeyIndices, keyIndexRef,
                 isManualKeySelection, prompts, startId, endId, results, isGenerating,
                 progress, concurrencyLimit, requestDelay, queue, workers, runCl, retries,
                 session, pos>>

\* --------------------------------------------------- the run (pool)
\* variant that copies the selected index in either mode (what C5 rules out)
SeedCursorAlways == [keyIndexRef EXCEPT ![activeProvider] = activeKeyIndex]

\* in manual mode a run, a retry and an edit first copy the selected index
\* into the provider's cursor
SeedCursor ==
  IF isManualKeySelection
  THEN [keyIndexRef EXCEPT ![activeProvider] = activeKeyIndex]
  ELSE keyIndexRef

\* keyIndexRef.current = keyIndexToTry / setActiveKeyIndices on a success
Advanced(f, cl, s) ==
  IF s.kind = "ret" /\ s.adv >= 0 THEN [f EXCEPT ![cl.prov] = s.adv] ELSE f

RunState ==
  [results |-> results, queue |-> queue, progress |-> progress, workers |-> workers,
   finished |-> <<>>]

\* store a run state; once every worker has left its loop Promise.all
\* resolves and setIsGenerating(false) runs
Commit(st, cl) ==
  /\ results' = st.results
  /\ progress' = st.progress
  /\ finished' = st.finished
  /\ IF AllWorkersDone(st.workers, concurrencyLimit)
     THEN isGenerating' = FALSE /\ workers' = NoWorkers /\ queue' = st.queue /\ runCl' = NoClosure
     ELSE isGenerating' = TRUE /\ workers' = st.workers /\ queue' = st.queue /\ runCl' = cl

\* variant that returns without the alert (what C9's corrected form rules out)
RejectSilently(msg) ==
  /\ alertMsg' = ""
  /\ finished' = <<>>
  /\ UNCHANGED <<apiKeys, localStorage, csvData>>
  /\ UNCHANGED genVars

\* an alert and an early return
Reject(msg) ==
  /\ alertMsg' = msg
  /\ finished' = <<>>
  /\ UNCHANGED <<apiKeys, localStorage, csvData>>
  /\ UNCHANGED genVars

StartRun ==
  LET cl == Capture
      refs == SeedCursor
      initialResults == [i \in 1..Len(promptsToGenerate) |-> InitialResult(promptsToGenerate[i])]
      st0 == [results |-> initialResults, queue |-> initialResults,
              progress |-> [current |-> 0, total |-> Len(initialResults)],
              workers |-> NoWorkers, finished |-> <<>>]
  IN /\ keyIndexRef' = refs
     /\ Commit(Spawn(st0, 1, concurrencyLimit, cl, refs, requestDelay), cl)
     /\ alertMsg' = ""
     /\ runInput' = promptsToGenerate
     /\ runClean' = TRUE
     /\ UNCHANGED <<lastGood, apiKeys, localStorage, csvData, selectedModel, activeKeyIndices, isManualKeySelection, prompts,
                    startId, endId, concurrencyLimit, requestDelay, retries, editingResult>>

\* the handler behind the Start button, with its own guards
handleStartGeneration ==
  /\ hasAnyKey /\ Takes("start")
  /\ ~isGenerating
  /\ IF Len(prompts) = 0 THEN Reject(AlertNoPrompts)
     ELSE IF Len(activeKeys) = 0 THEN Reject(AlertNoKeys)
     ELSE IF RangeGiven /\ RangeInvalid THEN Reject(AlertBadRange)
     ELSE IF Len(promptsToGenerate) = 0 THEN Reject(AlertEmptyRange)
     ELSE StartRun

\* worker w goes on with what generateSingleImage did next (s)
PoolStep(w, s) ==
  LET job == workers[w]
      refs == Advanced(keyIndexRef, runCl, s)
      st == IF s.kind = "ret"
            THEN AfterTask(RunState, w, runCl, refs, requestDelay, job.item, s, job.calls,
                           job.hist)
            ELSE [RunState EXCEPT !.workers[w] = BusyWorker(job.item, s, job.calls, job.hist)]
  IN /\ keyIndexRef' = refs
     /\ activeKeyIndices' = Advanced(activeKeyIndices, runCl, s)
     /\ Commit(st, runCl)
     /\ alertMsg' = ""
     /\ lastGood' = Advanced(lastGood, runCl, s)
     /\ UNCHANGED <<runInput, apiKeys, localStorage, csvData, selectedModel, isManualKeySelection, prompts, startId, endId,
                    concurrencyLimit, requestDelay, retries, editingResult, session, pos>>

\* the sanitizer answered (or failed): worker w chooses its key
PoolAnonymized(w) ==
  /\ workers[w].pc = "anon"
  /\ PoolStep(w, GsiSelect(runCl, workers[w].item, workers[w].attempt, keyIndexRef))
  /\ UNCHANGED runClean

\* the provider answered worker w's image request with outcome o
PoolResponse(w, o) ==
  /\ workers[w].pc = "await"
  /\ PoolStep(w, GsiResponse(runCl, workers[w].item, workers[w].attempt, workers[w].key,
                             o, keyIndexRef))
  /\ runClean' = (runClean /\ o.kind = "image")

\* worker w's inter-task timer fires
TimerFires(w) ==
  /\ workers[w].pc = "delay"
  /\ Commit(WorkerLoop(RunState, w, runCl, keyIndexRef, requestDelay), runCl)
  /\ alertMsg' = ""
  /\ UNCHANGED <<lastGood, runInput, runClean, apiKeys, localStorage, csvData, selectedModel, activeKeyIndices, keyIndexRef, isManualKeySelection,
                 prompts, startId, endId, concurrencyLimit, requestDelay, retries,
                 editingResult, session, pos>>

\* --------------------------------------------------- retry and edit
BusySlot(src, idx, item, cl, s, calls, hist) ==
  [pc |-> IF s.kind = "anon" THEN "anon" ELSE "await", src |-> src, idx |-> idx,
   item |-> item, attempt |-> s.attempt, key |-> s.key,
   calls |-> IF s.kind = "call" THEN calls + 1 ELSE calls, hist |-> Seen(hist, s),
   cl |-> cl]

\* a retry / edit in slot r goes on with what generateSingleImage did next
\* (s); rs and refs are the results and cursors its handler left
SingleStep(r, src, idx, item, cl, calls, hist, s, rs, refs) ==
  /\ keyIndexRef' = Advanced(refs, cl, s)
  /\ activeKeyIndices' = Advanced(activeKeyIndices, cl, s)
  /\ IF s.kind = "ret"
     THEN /\ results' = WriteBackByIndex(rs, idx, s.res)
          /\ retries' = [retries EXCEPT ![r] = FreeSlot]
          /\ finished' = <<Summary(src, item, cl, s, calls, hist)>>
     ELSE /\ results' = rs
          /\ retries' = [retries EXCEPT ![r] = BusySlot(src, idx, item, cl, s, calls, hist)]
          /\ finished' = <<>>
  /\ alertMsg' = ""
  /\ lastGood' = Advanced(lastGood, cl, s)
  /\ UNCHANGED <<runInput, runClean, apiKeys, localStorage, csvData, selectedModel, isManualKeySelection, prompts, startId, endId,
                 isGenerating, progress, concurrencyLimit, requestDelay, queue, workers,
                 runCl>>

\* the Retry button of an error card
handleRetry(r, resultId) ==
  /\ hasAnyKey
  /\ retries[r].pc = "free"
  /\ Takes("retry")
  /\ \E i \in 1..Len(results) : results[i].id = resultId /\ results[i].status = "error"
  /\ LET resultIndex == FindIndex(results, resultId)
         item == results[resultIndex]
         rs == [results EXCEPT ![resultIndex] = [@ EXCEPT !.status = "generating",
                                                          !.error = ErrNone]]
     IN SingleStep(r, "retry", resultIndex, item, Capture, 0, <<>>,
                   GsiEnter(Capture, item, 0, SeedCursor), rs, SeedCursor)
  /\ UNCHANGED editingResult

\* EditModal onSave(result.id, newPrompt)
handleEditAndSave(r, newPrompt) ==
  /\ hasAnyKey
  /\ retries[r].pc = "free"
  /\ Takes("save")
  /\ editingResult # 0
  /\ FindIndex(results, editingResult) # 0
  /\ LET resultIndex == FindIndex(results, editingResult)
         resultToUpdate == [results[resultIndex] EXCEPT !.prompt = newPrompt]
         rs == [results EXCEPT ![resultIndex] = [@ EXCEPT !.prompt = newPrompt,
                                                          !.status = "generating",
                                                          !.error = ErrNone]]
     IN SingleStep(r, "edit", resultIndex, resultToUpdate, Capture, 0, <<>>,
                   GsiEnter(Capture, resultToUpdate, 0, SeedCursor), rs, SeedCursor)
  /\ editingResult' = 0

\* the sanitizer answered the retry / edit in slot r
SingleAnonymized(r) ==
  /\ retries[r].pc = "anon"
  /\ LET job == retries[r]
     IN SingleStep(r, job.src, job.idx, job.item, job.cl, job.calls, job.hist,
                   GsiSelect(job.cl, job.item, job.attempt, keyIndexRef), results, keyIndexRef)
  /\ UNCHANGED <<editingResult, session, pos>>

\* the provider answered the image request of the retry / edit in slot r
SingleResponse(r, o) ==
  /\ retries[r].pc = "await"
  /\ LET job == retries[r]
     IN SingleStep(r, job.src, job.idx, job.item, job.cl, job.calls, job.hist,
                   GsiResponse(job.cl, job.item, job.attempt, job.key, o, keyIndexRef),
                   results, keyIndexRef)
  /\ UNCHANGED <<editingResult, session, pos>>

\* ----------------------------------------------------------------- Next
EditedPrompts == {"p1"}

Next ==
  \/ \E keys \in SubmitInputs : handleApiKeySubmit(keys)
  \/ \E l \in AddInputs : handleAddKeys(l)
  \/ \E k \in KeyIds : handleRemoveKey(k)
  \/ handleClearAllKeys
  \/ \E i \in 0..(MaxKeys - 1) : handleSelectKey(i)
  \/ onSetAutomatic
  \/ \E m \in ModelChoices : setSelectedModel(m)
  \/ \E c \in 1..MaxConcurrency : setConcurrencyLimit(c)
  \/ \E d \in Delays : setRequestDelay(d)
  \/ \E l \in PromptLists : handleTextInputChange(l)
  \/ \E f \in RangeFields : setStartId(f)
  \/ \E f \in RangeFields : setEndId(f)
  \/ \E id \in TaskIds : setEditingResult(id)
  \/ closeEditModal
  \/ handleStartGeneration
  \/ \E w \in 1..MaxConcurrency : PoolAnonymized(w)
  \/ \E w \in 1..MaxConcurrency, o \in Outcomes : PoolResponse(w, o)
  \/ \E w \in 1..MaxConcurrency : TimerFires(w)
  \/ \E r \in 1..MaxRetries, id \in TaskIds : handleRetry(r, id)
  \/ \E r \in 1..MaxRetries, p \in EditedPrompts : handleEditAndSave(r, p)
  \/ \E r \in 1..MaxRetries : SingleAnonymized(r)
  \/ \E r \in 1..MaxRetries, o \in Outcomes : SingleResponse(r, o)

Spec == Init /\ [][Next]_vars

\* Scheduling: every image request is answered (with any outcome) and every
\* inter-task timer fires.  Nothing is assumed about the sanitizer request.
FairSpec ==
  /\ FairInit /\ [][Next]_vars
  /\ \A w \in 1..MaxConcurrency : WF_vars(\E o \in Outcomes : PoolResponse(w, o))
  /\ \A w \in 1..MaxConcurrency : WF_vars(TimerFires(w))
  /\ \A r \in 1..MaxRetries : WF_vars(\E o \in Outcomes : SingleResponse(r, o))

\* ---------------------------------------------- the key lists on their own
\* The App's key handlers and the page reload, from every stored state the
\* browser may hold, on either provider's list.
KeysNext ==
  \/ \E keys \in SubmitInputs : handleApiKeySubmit(keys)
  \/ \E l \in AddInputs : handleAddKeys(l)
  \/ \E k \in KeyIds : handleRemoveKey(k)
  \/ handleClearAllKeys
  \/ Reload
  \/ \E m \in ModelChoices : setSelectedModel(m)

KeysSpec == KeysInit /\ [][KeysNext]_vars

\* ------------------------------------------- the range filter on its own
\* The Start handler applied to every parsed list of up to MaxFilterLen
\* tasks with ids in 1..MaxFilterId (in any order, repeats included) and
\* every content of the two range fields, one key being stored.
FilterLists ==
  UNION {[1..n -> 1..MaxFilterId] : n \in 0..MaxFilterLen}

FilterFields == {Blank} \cup {Num(n) : n \in 1..MaxFilterId}

FilterInit ==
  /\ apiKeys = [EmptyApiKeys EXCEPT !["openai"] = <<1>>]
  /\ localStorage = setItem(NoStorage, "ai_api_keys",
                            Stringify([EmptyApiKeys EXCEPT !["openai"] = <<1>>]))
  /\ csvData = <<>>
  /\ selectedModel = "openai-dalle3"
  /\ activeKeyIndices = [p \in Providers |-> 0]
  /\ keyIndexRef = [p \in Providers |-> 0]
  /\ isManualKeySelection = FALSE
  /\ prompts \in FilterLists
  /\ startId \in FilterFields
  /\ endId \in FilterFields
  /\ results = <<>>
  /\ isGenerating = FALSE
  /\ progress = [current |-> 0, total |-> 0]
  /\ concurrencyLimit = 1
  /\ requestDelay = DefaultRequestDelay
  /\ queue = <<>>
  /\ workers = NoWorkers
  /\ runCl = NoClosure
  /\ retries = NoRetries
  /\ editingResult = 0
  /\ alertMsg = ""
  /\ finished = <<>>
  /\ lastGood = [p \in Providers |-> -1]
  /\ runInput = <<>>
  /\ runClean = TRUE
  /\ session = 1
  /\ pos = 0

FilterNext == handleStartGeneration

FilterSpec == FilterInit /\ [][FilterNext]_vars

\* ------------------------------------------- the input parsers on their own
\* Both input paths applied to every list of up to MaxRows rows of one to
\* three fields.  A text is a sequence of characters.
Digits == {"1", "2"}

\* first fields: empty, a number, a number after a blank, not a number, a
\* number followed by a letter
IdTexts == {<<>>, <<"1">>, <<" ", "2">>, <<"x">>, <<"2", "x">>}

\* second fields: empty, blank, a text with a trailing blank
PromptTexts == {<<>>, <<" ">>, <<"a", " ">>}

\* third fields
MoreTexts == {<<>>, <<" ">>, <<"b">>}

CsvRows ==
  {<<i>> : i \in IdTexts}
    \cup {<<i, t>> : i \in IdTexts, t \in PromptTexts}
    \cup {<<i, t, u>> : i \in IdTexts, t \in PromptTexts, u \in MoreTexts}

RowLists == UNION {[1..n -> CsvRows] : n \in 0..MaxRows}

RECURSIVE TrimStart(_)
TrimStart(t) == IF Len(t) > 0 /\ t[1] = " " THEN TrimStart(Tail(t)) ELSE t

RECURSIVE TrimEnd(_)
TrimEnd(t) ==
  IF Len(t) > 0 /\ t[Len(t)] = " " THEN TrimEnd(SubSeq(t, 1, Len(t) - 1)) ELSE t

\* String.prototype.trim
Trim(t) == TrimEnd(TrimStart(t))

\* fields.join(',')
RECURSIVE Join(_)
Join(fields) ==
  IF Len(fields) = 0 THEN <<>>
  ELSE IF Len(fields) = 1 THEN fields[1]
  ELSE fields[1] \o <<",">> \o Join(Tail(fields))

\* isNaN(parseInt(text, 10)): parseInt reads the leading digits
IsNaNParseInt(t) == Len(t) = 0 \/ t[1] \notin Digits

\* what the filter drops: null, an undefined or empty id or prompt (all
\* written as the empty text here), an id parseInt gives NaN for
NoRecord == [id |-> <<>>, prompt |-> <<>>]

KeepsRecord(p) == Len(p.id) > 0 /\ Len(p.prompt) > 0 /\ ~IsNaNParseInt(p.id)

\* handleFileChange: { id: row[0]?.trim(), prompt: row[1]?.trim() }
FileRecord(row) ==
  [id |-> Trim(row[1]), prompt |-> IF Len(row) >= 2 THEN Trim(row[2]) ELSE <<>>]

\* handleTextInputChange: row.slice(1).join(',').trim(), null under two fields
TextRecord(row) ==
  IF Len(row) < 2 THEN NoRecord
  ELSE [id |-> Trim(row[1]), prompt |-> Trim(Join(Tail(row)))]

FileRecords(rows) == SelectSeq([i \in 1..Len(rows) |-> FileRecord(rows[i])], KeepsRecord)

TextRecords(rows) == SelectSeq([i \in 1..Len(rows) |-> TextRecord(rows[i])], KeepsRecord)

\* the complete callback of either path: the list is stored and the range
\* fields are preset to the first and last id (the results were emptied when
\* the input changed)
ParseComplete(parsedPrompts) ==
  /\ hasAnyKey /\ ~isGenerating
  /\ results' = <<>>
  /\ prompts' = parsedPrompts
  /\ IF Len(parsedPrompts) > 0
     THEN startId' = parsedPrompts[1].id /\ endId' = parsedPrompts[Len(parsedPrompts)].id
     ELSE startId' = Blank /\ endId' = Blank
  /\ Quiet
  /\ runInput' = <<>>
  /\ runClean' = TRUE
  /\ UNCHANGED <<lastGood, apiKeys, localStorage, csvData, selectedModel, activeKeyIndices,
                 keyIndexRef, isManualKeySelection, isGenerating, progress, concurrencyLimit,
                 requestDelay, queue, workers, runCl, retries, editingResult, session, pos>>

\* a file was chosen and parsed
handleFileChange == ParseComplete(FileRecords(csvData))

\* text was pasted and parsed
handleTextInputRows == ParseComplete(TextRecords(csvData))

ParseInit ==
  /\ apiKeys = [EmptyApiKeys EXCEPT !["openai"] = <<1>>]
  /\ localStorage = setItem(NoStorage, "ai_api_keys",
                            Stringify([EmptyApiKeys EXCEPT !["openai"] = <<1>>]))
  /\ csvData \in RowLists
  /\ MountState
  /\ session = 1

ParseNext == handleFileChange \/ handleTextInputRows

ParseSpec == ParseInit /\ [][ParseNext]_vars

\* =============================================================== claims
\* the tasks that returned in the last step
Fin == Range(finished)

\* the tasks waiting for the sanitizer or for the provider, each with the
\* closure it runs in
Job(cl, j) ==
  [cl |-> cl, pc |-> j.pc, attempt |-> j.attempt, key |-> j.key, calls |-> j.calls,
   hist |-> j.hist]

Jobs ==
  {Job(runCl, workers[w]) : w \in {v \in 1..MaxConcurrency : workers[v].pc \in {"anon", "await"}}}
  \cup {Job(retries[r].cl, retries[r]) : r \in {q \in 1..MaxRetries : retries[q].pc # "free"}}

LastOf(hist) == IF Len(hist) = 0 THEN "none" ELSE hist[Len(hist)]

AllRateLimited(hist) == \A i \in 1..Len(hist) : hist[i] = "RateLimited"

Unique(seq) == \A i, j \in 1..Len(seq) : i # j => seq[i] # seq[j]

\* the user's event in this step was of this kind
Did(kind) == pos' # pos /\ Script[session][pos'] = kind

\* job "new" has just sent the first image request of its task
SentFirst(old, new) == new # old /\ new.pc = "await" /\ new.attempt = 0

\* C1: in automatic mode a task run with a non-empty list of n keys sends at
\* most n image requests; when n replies in a row were classified as rate
\* limited it has sent exactly n and returns the error "All API keys are
\* rate-limited or invalid."
C1_AutoAtMostPoolSizeCalls ==
  /\ \A j \in Jobs : (~j.cl.manual /\ Len(j.cl.keys) > 0) => j.calls <= Len(j.cl.keys)
  /\ \A f \in Fin : (~f.cl.manual /\ Len(f.cl.keys) > 0) =>
       /\ f.calls <= Len(f.cl.keys)
       /\ (Len(f.hist) = Len(f.cl.keys) /\ AllRateLimited(f.hist)) =>
            /\ f.calls = Len(f.cl.keys)
            /\ f.res.status = "error"
            /\ f.res.error = ErrAllKeys

C1_Witness ==
  \E f \in Fin :
    /\ ~f.cl.manual /\ Len(f.cl.keys) = MaxKeys
    /\ Len(f.hist) = MaxKeys /\ AllRateLimited(f.hist)
    /\ f.calls = MaxKeys /\ f.res.error = ErrAllKeys

\* C2 (as stated): in manual mode a task run with a non-empty key list sends
\* exactly one image request, whatever the outcome
C2_ManualExactlyOneCall ==
  \A f \in Fin : (f.cl.manual /\ Len(f.cl.keys) > 0) => f.calls = 1

\* C3 (as stated): in manual mode a failed task returns the error that names
\* the manually selected key
C3_ManualFailureNamesKey ==
  \A f \in Fin :
    (f.cl.manual /\ Len(f.cl.keys) > 0 /\ f.res.status = "error") => f.res.error = ErrManualKey

\* an automatic-mode success with key index k leaves the cursor at k
SuccessMovesCursor ==
  \A f \in Range(finished') :
    (~f.cl.manual /\ LastOf(f.hist) = "Success") =>
      /\ f.res.status = "success"
      /\ keyIndexRef'[f.cl.prov] = f.key

\* C4 (as stated): an automatic-mode success with key index k leaves the
\* cursor at k, and the first request of the next automatic-mode task uses
\* key index k
C4_NextTaskUsesLastGoodKey ==
  [][/\ SuccessMovesCursor
     /\ \A w \in 1..MaxConcurrency :
          (SentFirst(workers[w], workers'[w]) /\ ~runCl'.manual /\ lastGood'[runCl'.prov] >= 0)
            => workers'[w].key = lastGood'[runCl'.prov]
     /\ \A r \in 1..MaxRetries :
          (SentFirst(retries[r], retries'[r]) /\ ~retries'[r].cl.manual
             /\ lastGood'[retries'[r].cl.prov] >= 0)
            => retries'[r].key = lastGood'[retries'[r].cl.prov]]_vars

\* C4 (corrected): an automatic-mode success with key index k leaves the
\* cursor at k, and the first request of an automatic-mode task uses the
\* index (cursor mod n), n being the length of the key list the task runs with
C4_NextTaskUsesCursorModPool ==
  [][/\ SuccessMovesCursor
     /\ \A w \in 1..MaxConcurrency :
          (SentFirst(workers[w], workers'[w]) /\ ~runCl'.manual)
            => workers'[w].key = keyIndexRef'[runCl'.prov] % Len(runCl'.keys)
     /\ \A r \in 1..MaxRetries :
          (SentFirst(retries[r], retries'[r]) /\ ~retries'[r].cl.manual)
            => retries'[r].key = keyIndexRef'[retries'[r].cl.prov] % Len(retries'[r].cl.keys)]_vars

\* key 0 was rate limited, key 1 succeeded, and a later task starts at key 1
C4_Witness ==
  \E w \in 1..MaxConcurrency :
    /\ workers[w].pc = "await" /\ workers[w].attempt = 0 /\ workers[w].key = 1
    /\ ~runCl.manual /\ Len(runCl.keys) = MaxKeys
    /\ lastGood[runCl.prov] = 1 /\ keyIndexRef[runCl.prov] = 1

\* the step moved provider p's cursor while the generator stayed mounted
CursorMoved(p) == hasAnyKey' /\ keyIndexRef'[p] # keyIndexRef[p]

\* a task of provider p succeeded in this step
SucceededFor(p) ==
  \E f \in Range(finished') : f.cl.prov = p /\ LastOf(f.hist) = "Success"

\* C5 (as stated): a provider's cursor changes only in a step in which an
\* image request for that provider succeeds
C5_CursorMovesOnlyOnSuccess ==
  [][\A p \in Providers : CursorMoved(p) => SucceededFor(p)]_vars

\* C5 (corrected): a provider's cursor changes only when an automatic-mode
\* image request for that provider succeeds (it becomes the index used), or
\* when a run, a retry or an edit is started in manual mode for the active
\* provider (it becomes the selected index)
C5_CursorMovesOnSuccessOrManualStart ==
  [][\A p \in Providers : CursorMoved(p) =>
       \/ \E f \in Range(finished') :
            /\ f.cl.prov = p /\ ~f.cl.manual /\ LastOf(f.hist) = "Success"
            /\ keyIndexRef'[p] = f.key
       \/ /\ Did("start") \/ Did("retry") \/ Did("save")
          /\ isManualKeySelection /\ p = activeProvider
          /\ keyIndexRef'[p] = activeKeyIndex]_vars

\* a cursor that has left 0 although no request of its provider ever succeeded
C5_Witness ==
  \E p \in Providers :
    /\ lastGood[p] = -1 /\ keyIndexRef[p] # 0
    /\ isManualKeySelection /\ keyIndexRef[p] = activeKeyIndices[p]

\* C6 (as stated): whenever a provider's key list is non-empty, its cursor
\* and its selected index are valid indices of that list
C6_CursorIsValidIndex ==
  \A p \in Providers :
    Len(apiKeys[p]) > 0 =>
      /\ keyIndexRef[p] \in 0..(Len(apiKeys[p]) - 1)
      /\ activeKeyIndices[p] \in 0..(Len(apiKeys[p]) - 1)

\* C7: in automatic mode a reply classified Other ends the task at once: the
\* task returns an error record in the step that classifies the reply,
\* having sent one request per classification (so none after it), and the
\* cursors are left as they were; a task still in flight has seen nothing
\* but rate-limit classifications
C7_OtherEndsTaskAtOnce ==
  [][/\ \A j \in Jobs' : ~j.cl.manual => AllRateLimited(j.hist)
     /\ \A f \in Range(finished') :
          (~f.cl.manual /\ LastOf(f.hist) = "Other") =>
            /\ f.res.status = "error"
            /\ f.res.error \in {ErrProvider, ErrNoImage}
            /\ f.calls = Len(f.hist)
            /\ f.calls = f.attempt + 1
            /\ keyIndexRef' = keyIndexRef]_vars

\* a first reply classified Other ended a task that had another key to try
C7_Witness ==
  \E f \in Fin :
    /\ ~f.cl.manual /\ Len(f.cl.keys) = MaxKeys
    /\ f.hist = <<"Other">> /\ f.calls = 1 /\ f.res.status = "error"

StartedWithoutKeys == Did("start") /\ Len(prompts) > 0 /\ Len(activeKeys) = 0

\* C9 (as stated): starting a run with no key for the active provider leaves
\* one error record with the no-keys message for every task of the input list
C9_NoKeysRunFailsEveryTask ==
  [][StartedWithoutKeys =>
       \A i \in 1..Len(prompts) :
         \E j \in 1..Len(results') :
           /\ results'[j].id = prompts[i]
           /\ results'[j].status = "error"
           /\ results'[j].error = ErrNoKeys]_vars

\* C9 (corrected): starting a run with no key for the active provider is
\* refused with the "add at least one API key" alert: no run becomes active,
\* no task is processed and the results are left as they were
C9_NoKeysRunIsRefused ==
  [][StartedWithoutKeys =>
       /\ alertMsg' = AlertNoKeys
       /\ ~isGenerating'
       /\ finished' = <<>>
       /\ UNCHANGED <<results, workers, retries, queue, keyIndexRef>>]_vars

\* the alert of a refused start, with prompts loaded and nothing recorded
C9_Witness ==
  alertMsg = AlertNoKeys /\ Len(prompts) > 0 /\ Len(activeKeys) = 0 /\ Len(results) = 0

\* C10 (as stated): once a run was started on a task list with unique ids,
\* the results hold exactly one record for every id of that list and nothing
\* else, whatever retries and edits are interleaved
C10_OneRecordPerTask ==
  (Len(runInput) > 0 /\ Unique(runInput)) =>
    /\ Len(results) = Len(runInput)
    /\ \A i \in 1..Len(runInput) :
         Cardinality({j \in 1..Len(results) : results[j].id = runInput[i]}) = 1

\* the run resolved in this step: setIsGenerating(false) ran, in the step
\* that started the run or in a later one, with the generator still mounted
RunResolves ==
  /\ hasAnyKey' /\ ~isGenerating'
  /\ isGenerating \/ (Did("start") /\ alertMsg' = "")

\* a retry or an edit is in flight for position i of the results
RetryInFlightAt(rt, i) == \E r \in 1..MaxRetries : rt[r].pc # "free" /\ rt[r].idx = i

\* C11 (as stated): when the run resolves the queue is empty and no record
\* of the results is pending or generating
C11_RunLeavesNothingUnfinished ==
  [][RunResolves =>
       /\ Len(queue') = 0
       /\ \A i \in 1..Len(results') : results'[i].status \notin {"pending", "generating"}]_vars

\* C11 (corrected): when the run resolves the queue is empty, no record is
\* pending, and a record is generating only where a retry or an edit the
\* user started is still in flight
C11_RunLeavesOnlyUserRetriesGenerating ==
  [][RunResolves =>
       /\ Len(queue') = 0
       /\ \A i \in 1..Len(results') :
            /\ results'[i].status # "pending"
            /\ results'[i].status = "generating" => RetryInFlightAt(retries', i)]_vars

\* a run of MaxTasks tasks has just resolved with every record terminal
C11_Witness ==
  /\ ~isGenerating /\ hasAnyKey
  /\ \E f \in Fin : f.src = "pool"
  /\ progress.total = MaxTasks /\ progress.current = MaxTasks
  /\ Len(results) = MaxTasks
  /\ \A i \in 1..Len(results) : results[i].status \in {"success", "error"}

\* a run was started in this step
StartedRun == Did("start") /\ alertMsg' = ""

\* the run's queue as this step found it: the one just built when the step
\* starts the run
QueueBefore ==
  IF StartedRun THEN [i \in 1..Len(runInput') |-> InitialResult(runInput'[i])] ELSE queue

\* the number of workers inside generateSingleImage for a task with this id
Held(ws, id) ==
  Cardinality({w \in 1..MaxConcurrency : ws[w].pc \in {"anon", "await"} /\ ws[w].item.id = id})

\* the number of pool tasks with this id that returned in the step
Done(fin, id) ==
  Cardinality({i \in 1..Len(fin) : fin[i].src = "pool" /\ fin[i].id = id})

\* the number of entries with this id among the first n of q
Taken(q, n, id) == Cardinality({i \in 1..n : q[i].id = id})

\* C12: in every step of a run the queue loses entries from its front only,
\* and each entry it loses went to exactly one worker: it is either held by
\* one worker that is inside the retry policy for it or one pool task that
\* returned in the step, the tasks held before being accounted for the same
\* way; with unique ids no two workers hold the same task
C12_EachTaskClaimedOnce ==
  [][hasAnyKey' =>
       LET n == Len(QueueBefore) - Len(queue')
       IN /\ n >= 0
          /\ queue' = SubSeq(QueueBefore, n + 1, Len(QueueBefore))
          /\ \A id \in TaskIds :
               Taken(QueueBefore, n, id) + Held(workers, id)
                 = Done(finished', id) + Held(workers', id)
          /\ Unique(runInput') => \A id \in TaskIds : Held(workers', id) <= 1]_vars

\* MaxConcurrency workers each wait for the reply to a different task
C12_Witness ==
  /\ isGenerating /\ concurrencyLimit = MaxConcurrency /\ Len(queue) = 0
  /\ \A w \in 1..MaxConcurrency : workers[w].pc = "await"
  /\ \A v, w \in 1..MaxConcurrency : v # w => workers[v].item.id # workers[w].item.id

\* the image requests in flight for a task id: from pool workers and from
\* the user's retries and edits
InFlight(id) ==
  Cardinality({w \in 1..MaxConcurrency : workers[w].pc = "await" /\ workers[w].item.id = id})
  + Cardinality({r \in 1..MaxRetries : retries[r].pc = "await" /\ retries[r].item.id = id})

\* C13 (as stated): with the unique ids the data model asks for, at most one
\* image request is in flight for any task id at any time, across workers,
\* retries, edits and successive runs
C13_OneRequestPerTaskId ==
  (Unique(prompts) /\ Unique(runInput)) => \A id \in TaskIds : InFlight(id) <= 1

\* no run is active and its report is on screen (or the generator is gone)
RunOver == ~isGenerating /\ (Len(results) > 0 \/ ~hasAnyKey)

\* every sanitizer request of a pool worker is answered
SanitizerReturns == \A w \in 1..MaxConcurrency : []<>(workers[w].pc # "anon")

\* C14 (as stated): when every image request is answered, every started run
\* resolves
C14_RunResolves == isGenerating ~> RunOver

\* C14 (corrected): when every image request and every sanitizer request is
\* answered, every started run resolves
C14_RunResolvesIfSanitizerReturns == SanitizerReturns => (isGenerating ~> RunOver)

\* a run has resolved although every one of its tasks failed
C14_Witness ==
  /\ ~isGenerating /\ hasAnyKey
  /\ \E f \in Fin : f.src = "pool"
  /\ progress.total = MaxTasks /\ progress.current = MaxTasks
  /\ Len(results) = MaxTasks
  /\ \A i \in 1..Len(results) : results[i].status = "error"

\* a pool task returned an error record in this step of an active run
PoolTaskFailed ==
  /\ isGenerating /\ hasAnyKey'
  /\ \E f \in Range(finished') : f.src = "pool" /\ f.res.status = "error"

\* the ids of the pool tasks that returned in the step and of the tasks
\* taken from the queue in it
TouchedIds ==
  {finished'[i].id : i \in {j \in 1..Len(finished') : finished'[j].src = "pool"}}
  \cup {queue[i].id : i \in 1..(Len(queue) - Len(queue'))}

\* C15: a step in which a pool task returns an error record leaves the pool
\* running and the other tasks alone: records carrying another id than that
\* of a task the stepping worker finished or took are unchanged, the tasks
\* still waiting stay queued in order, the other workers are where they
\* were, and the run resolves in that step only if the queue is empty and
\* every other worker had already left its loop
C15_ErrorStaysLocal ==
  [][PoolTaskFailed =>
       /\ Len(results') = Len(results)
       /\ \A i \in 1..Len(results) : results[i].id \notin TouchedIds => results'[i] = results[i]
       /\ Len(queue') <= Len(queue)
       /\ queue' = SubSeq(queue, Len(queue) - Len(queue') + 1, Len(queue))
       /\ isGenerating' =>
            Cardinality({w \in 1..MaxConcurrency : workers'[w] # workers[w]}) <= 1
       /\ ~isGenerating' =>
            /\ Len(queue') = 0
            /\ Cardinality({w \in 1..concurrencyLimit : workers[w].pc # "done"}) = 1]_vars

\* a run resolved in which the first task failed and every later one succeeded
C15_Witness ==
  /\ ~isGenerating /\ hasAnyKey
  /\ \E f \in Fin : f.src = "pool"
  /\ Len(results) = MaxTasks /\ progress.current = MaxTasks
  /\ results[1].status = "error"
  /\ \A i \in 2..Len(results) : results[i].status = "success"

\* C16 (as stated): when a run resolves and every image request it sent was
\* answered with an image, every task of the run has a record with status
\* success and image data, and the reported success count is the number of
\* tasks (a run only starts with at least one key)
C16_AllSucceedWhenCallsSucceed ==
  [][(RunResolves /\ runClean') =>
       /\ \A i \in 1..Len(runInput') :
            \E j \in 1..Len(results') :
              /\ results'[j].id = runInput'[i]
              /\ results'[j].status = "success"
              /\ results'[j].imageUrl # "null"
       /\ successfulGenerations' = Len(runInput')]_vars

\* the workers that have claimed a task and not yet written its result back
Claimed == {w \in 1..MaxConcurrency : workers[w].pc \in {"anon", "await"}}

\* C17: the tasks claimed by pool workers and not yet written back never
\* outnumber the configured concurrency, and while a run is active exactly
\* the first concurrencyLimit worker slots have been started, however short
\* the task list is
C17_InFlightWithinConcurrency ==
  /\ Cardinality(Claimed) <= concurrencyLimit
  /\ isGenerating =>
       \A w \in 1..MaxConcurrency : (w <= concurrencyLimit) <=> (workers[w].pc # "idle")

\* a run of one task with MaxConcurrency workers: one holds the task, the
\* others were started and have left their loop
C17_Witness ==
  /\ isGenerating /\ concurrencyLimit = MaxConcurrency /\ Len(runInput) = 1
  /\ workers[1].pc = "await"
  /\ \A w \in 2..MaxConcurrency : workers[w].pc = "done"

\* the step is the user's retry or edit of the record at position i, or the
\* write-back of that retry or edit
UserStep(i) ==
  \/ \E f \in Range(finished') : f.src \in {"retry", "edit"} /\ f.id = results[i].id
  \/ \E r \in 1..MaxRetries :
       /\ retries'[r] # retries[r] /\ retries'[r].pc # "free"
       /\ retries'[r].idx = i /\ retries'[r].item.id = results[i].id

\* a pool task with this id returned in the step
PoolFinished(id) == \E f \in Range(finished') : f.src = "pool" /\ f.id = id

\* a pool worker is inside the retry policy for a task it took in this step
NewlyHeld(w) ==
  /\ workers'[w].pc \in {"anon", "await"}
  /\ workers'[w] # workers[w]
  /\ Len(queue') < Len(QueueBefore)

\* C18 (as stated): with unique ids, between two run starts a record's status
\* only moves pending -> generating -> success or error: a pending record
\* becomes generating (or terminal, when its task returns in the same step),
\* a generating record becomes terminal only when its pool task or its
\* retry returns, a terminal record changes only by the user's retry or edit
\* of it; and a worker that has taken a task has its record marked generating
C18_StatusOrder ==
  [][/\ (hasAnyKey' /\ ~StartedRun /\ Len(results') = Len(results) /\ Unique(runInput)) =>
          \A i \in 1..Len(results) :
            LET old == results[i]
                new == results'[i]
            IN /\ new.id = old.id
               /\ (old.status = "pending" /\ new # old) =>
                    \/ new.status = "generating"
                    \/ PoolFinished(old.id)
               /\ (old.status = "generating" /\ new # old) =>
                    PoolFinished(old.id) \/ UserStep(i)
               /\ (old.status \in {"success", "error"} /\ new # old) => UserStep(i)
     /\ (hasAnyKey' /\ isGenerating' /\ Unique(runInput')) =>
          \A w \in 1..MaxConcurrency :
            NewlyHeld(w) =>
              \E i \in 1..Len(results') :
                /\ results'[i].id = workers'[w].item.id
                /\ results'[i].status = "generating"]_vars

\* the positions of the parsed list whose id lies between the two bounds
PositionsInRange ==
  {j \in 1..Len(prompts) : ParseInt(startId) <= prompts[j] /\ prompts[j] <= ParseInt(endId)}

\* res lists the entries of src at the positions pos, in the order of src
IsSelection(res, src, positions) ==
  /\ Len(res) = Cardinality(positions)
  /\ \E f \in [1..Len(res) -> positions] :
       /\ \A i, j \in 1..Len(res) : i < j => f[i] < f[j]
       /\ \A i \in 1..Len(res) : res[i] = src[f[i]]

\* the positions form one block of the list
IsContiguous(positions) ==
  \A a, b \in positions : \A j \in a..b : j \in positions

\* C19 (as stated): the task list of a started run is the whole parsed list
\* when both range fields are empty; otherwise it is the contiguous block of
\* the parsed list whose ids lie in the range, in the original order
C19_TaskListIsContiguousBlockInRange ==
  [][StartedRun =>
       IF IsBlank(startId) /\ IsBlank(endId)
       THEN runInput' = prompts
       ELSE /\ IsSelection(runInput', prompts, PositionsInRange)
            /\ IsContiguous(PositionsInRange)]_vars

\* C19 (corrected): the task list of a started run is the whole parsed list
\* when both range fields are empty; otherwise it holds exactly the entries
\* of the parsed list whose ids lie in the range, in the original order
\* (they need not be next to each other in the list)
C19_TaskListIsSelectionInRange ==
  [][StartedRun =>
       IF IsBlank(startId) /\ IsBlank(endId)
       THEN runInput' = prompts
       ELSE IsSelection(runInput', prompts, PositionsInRange)]_vars

\* a run started on the first and the last entry of a list of MaxFilterLen
\* entries, those in between lying above the range
C19_Witness ==
  /\ isGenerating /\ Len(prompts) = MaxFilterLen
  /\ runInput = <<prompts[1], prompts[Len(prompts)]>>
  /\ \A j \in 2..(Len(prompts) - 1) : prompts[j] > ParseInt(endId)
  /\ ParseInt(startId) < ParseInt(endId)

\* exactly one of the two range fields is filled
OneBoundGiven == IsBlank(startId) # IsBlank(endId)

BothBoundsGiven == ~IsBlank(startId) /\ ~IsBlank(endId)

StartAfterEnd == BothBoundsGiven /\ ParseInt(startId) > ParseInt(endId)

\* the range is well formed and no task of the parsed list lies in it
SelectsNone ==
  /\ BothBoundsGiven /\ ParseInt(startId) <= ParseInt(endId)
  /\ \A j \in 1..Len(prompts) :
       prompts[j] < ParseInt(startId) \/ prompts[j] > ParseInt(endId)

\* C20: a start with an invalid range (one bound only, or start above end)
\* or with a range that selects no task is refused with an alert and changes
\* nothing else: no run becomes active, results and progress are kept, the
\* cursors and the selected indices are unchanged, and nothing is sent (no
\* worker, retry or queue entry appears, no task returns); with prompts
\* loaded and a key present the alert is the range alert of the case
C20_BadRangeChangesNothing ==
  [][(Did("start") /\ (OneBoundGiven \/ StartAfterEnd \/ SelectsNone)) =>
       /\ alertMsg' \in {AlertNoPrompts, AlertNoKeys, AlertBadRange, AlertEmptyRange}
       /\ (Len(prompts) > 0 /\ Len(activeKeys) > 0) =>
            alertMsg' = IF SelectsNone THEN AlertEmptyRange ELSE AlertBadRange
       /\ ~isGenerating'
       /\ finished' = <<>>
       /\ UNCHANGED <<results, progress, keyIndexRef, activeKeyIndices, queue, workers,
                      retries, runCl, isGenerating, prompts, startId, endId>>]_vars

\* a start refused because the range selects nothing, the results and the
\* progress of an earlier run still in place
C20_Witness ==
  /\ alertMsg = AlertEmptyRange
  /\ ~isGenerating /\ Len(results) > 0 /\ progress.total > 0

\* C21 (as stated): while a run is active the user can change no part of
\* the configuration: concurrency, delay, model, range fields, the key mode
\* and the selected key index all stay as they are (the generator staying
\* mounted)
C21_ConfigLockedDuringRun ==
  [][(isGenerating /\ hasAnyKey') =>
       /\ UNCHANGED <<concurrencyLimit, requestDelay, selectedModel, startId, endId>>
       /\ ~Did("select") /\ ~Did("auto")
       /\ isManualKeySelection' = isManualKeySelection]_vars

\* the keys of the new list that the old list did not have, from the old
\* list's length on
AppendedKeys(old, new) == SubSeq(new, Len(old) + 1, Len(new))

\* C22 (as stated): whatever was submitted, added, removed, cleared or
\* reloaded from storage, no provider's key list ever holds a key twice;
\* and adding keys keeps the keys already there in their order and appends
\* only keys that were not there
C22_KeyListsHaveNoDuplicates ==
  /\ [](\A p \in Providers : Unique(apiKeys[p]))
  /\ [][Did("add") =>
          \A p \in Providers :
            /\ Len(apiKeys'[p]) >= Len(apiKeys[p])
            /\ SubSeq(apiKeys'[p], 1, Len(apiKeys[p])) = apiKeys[p]
            /\ Range(AppendedKeys(apiKeys[p], apiKeys'[p])) \cap Range(apiKeys[p]) = {}]_vars

\* what a reload would read back from the 'ai_api_keys' item
Persisted(ls) ==
  IF getItem(ls, "ai_api_keys") = <<>> THEN EmptyApiKeys
  ELSE ParseKeys(getItem(ls, "ai_api_keys")[1])

\* C23: after every submission, add, removal, clear-all (and reload) the
\* key lists kept in local storage are the key lists in memory, for both
\* providers, so that a reload would restore exactly the lists in memory;
\* and adding or removing a key on the active provider leaves the other
\* provider's list as it was
C23_StorageMirrorsKeys ==
  [][/\ Persisted(localStorage') = apiKeys'
     /\ LoadEffect(localStorage').apiKeys = apiKeys'
     /\ (Did("add") \/ Did("remove")) =>
          \A p \in Providers \ {activeProvider} : apiKeys'[p] = apiKeys[p]]_vars

\* the page was just reloaded after keys were added or removed, both
\* providers holding keys, the stored item being the lists in memory
C23_Witness ==
  /\ pos > 3 /\ Script[session][pos] = "reload"
  /\ \A p \in Providers : Len(apiKeys[p]) > 0
  /\ Len(apiKeys["google"]) # 2
  /\ getItem(localStorage, "ai_api_keys") = <<Stringify(apiKeys)>>

\* job "new" has just sent the next image request of the task "old" was
\* waiting on: a rate-limited reply made the task go on to its next attempt
SentNext(old, new) ==
  /\ old.pc = "await" /\ new.pc = "await"
  /\ new.item = old.item /\ new.attempt = old.attempt + 1

\* C24 (as stated): in automatic mode the attempts of one task go through
\* the key list in round-robin order from the cursor value its first
\* attempt saw, whatever other workers and retries do to the cursor in
\* between: an attempt that follows another directly uses the key after the
\* one just tried (so the keys of a task are pairwise distinct and a task
\* that ends with "all keys" has tried every key once)
C24_AttemptsGoThroughKeysInOrder ==
  [][/\ \A w \in 1..MaxConcurrency :
          (SentNext(workers[w], workers'[w]) /\ ~runCl.manual) =>
            workers'[w].key = (workers[w].key + 1) % Len(runCl.keys)
     /\ \A r \in 1..MaxRetries :
          (SentNext(retries[r], retries'[r]) /\ ~retries[r].cl.manual) =>
            retries'[r].key = (retries[r].key + 1) % Len(retries[r].cl.keys)]_vars

\* worker w has sent an image request in this step
PoolSent(w) == workers'[w] # workers[w] /\ workers'[w].pc = "await"

\* C25: the workers of a run all see the configuration as it was when the
\* run was started: the run keeps the provider, key mode, key list and
\* selected index captured at Start until it is over, whatever the user
\* selects, adds or removes meanwhile; every request a worker sends is for
\* the captured index in manual mode and for (cursor + attempt) modulo the
\* captured list's length in automatic mode, and every task a worker
\* returns was run with the captured configuration
C25_RunKeepsStartConfiguration ==
  [][/\ (StartedRun /\ isGenerating') =>
          /\ runCl'.prov = activeProvider /\ runCl'.keys = activeKeys
          /\ runCl'.manual = isManualKeySelection /\ runCl'.aki = activeKeyIndex
     /\ (isGenerating /\ isGenerating' /\ hasAnyKey') => runCl' = runCl
     /\ (isGenerating /\ hasAnyKey') =>
          /\ \A w \in 1..MaxConcurrency : PoolSent(w) =>
                workers'[w].key = IF runCl.manual THEN runCl.aki
                                  ELSE (keyIndexRef'[runCl.prov] + workers'[w].attempt)
                                         % Len(runCl.keys)
          /\ \A i \in 1..Len(finished') :
                finished'[i].src = "pool" => finished'[i].cl = runCl]_vars

\* a run started in manual mode on the second key goes on sending with that
\* key after the user went back to automatic rotation
C25_Witness ==
  /\ isGenerating /\ runCl.manual /\ runCl.aki = 1 /\ ~isManualKeySelection
  /\ progress.current > 0
  /\ \E w \in 1..MaxConcurrency : workers[w].pc = "await" /\ workers[w].key = 1

\* the task list the claim gives for a list of rows: the id is the first
\* field, the prompt is all remaining fields joined; rows with an empty id,
\* an empty prompt or an id that is not a number are dropped; order is kept
ClaimedRecord(row) == [id |-> Trim(row[1]), prompt |-> Trim(Join(Tail(row)))]

ClaimedRecords(rows) ==
  SelectSeq([i \in 1..Len(rows) |-> ClaimedRecord(rows[i])], KeepsRecord)

\* C26 (as stated): on both input paths, the uploaded file and the pasted
\* text, the stored task list is the list of the rows' records in order,
\* each with the first field as id and all remaining fields joined as
\* prompt, without the rows whose id is empty or not a number or whose
\* prompt is empty
C26_BothPathsJoinRemainingFields ==
  [][prompts' = ClaimedRecords(csvData)]_vars

\* C27 (as stated): when a retry or an edit returns, the only record of the
\* result list that changes is one with the id of the retried task; no
\* record of another task is overwritten, also when a new run has replaced
\* the list since the retry was started
C27_RetryWritesOnlyItsOwnRecord ==
  [][\A k \in 1..Len(finished') :
       finished'[k].src # "pool" =>
         /\ Len(results') = Len(results)
         /\ \A i \in 1..Len(results) :
              results'[i] # results[i] => results[i].id = finished'[k].id]_vars

\* C28 (as stated): while manual mode is on, a provider's selected key
\* index changes only when the user selects a key; no task that returns
\* changes it, whatever mode the task was started in
C28_ManualIndexChangesOnlyBySelection ==
  [][(isManualKeySelection /\ isManualKeySelection' /\ hasAnyKey') =>
       (activeKeyIndices' # activeKeyIndices => Did("select"))]_vars

\* C29 (as stated): every image request in flight was sent with a key of
\* the key list its task runs with: the index it was sent for is within
\* 0 .. pool size - 1, in automatic mode whatever the cursor is, and in
\* manual mode also when the selected index is past the end of the list
\* after keys were removed (no request goes out with an absent key)
C29_RequestsUseAPresentKey ==
  \A j \in Jobs : j.pc = "await" => j.key \in 0..(Len(j.cl.keys) - 1)

\* C30 (as stated): a record with status success carries image data and a
\* record with status error carries none, also for a task that had
\* succeeded, was edited or retried, and then failed
C30_ImageDataMatchesStatus ==
  \A i \in 1..Len(results) :
    /\ results[i].status = "success" => results[i].imageUrl # "null"
    /\ results[i].status = "error" => results[i].imageUrl = "null"

====
